---- MODULE Spec2Model ----
(***************************************************************************)
(* qubesappmenus/receive.py: retrieval of menu entries from a VM and their *)
(* conversion to appmenu templates (qvm-sync-appmenus).                    *)
(*                                                                         *)
(* Text is modelled character by character: a text is a sequence of        *)
(* characters, a character is a one-character string, and the characters   *)
(* a TLA+ string cannot hold are the named tokens NUL, ESC and NONASCII.   *)
(* The regular expressions of the source are operators over such           *)
(* sequences, written after the matching rules of Python's re module.      *)
(***************************************************************************)
EXTENDS Integers, Sequences, FiniteSets, TLC

VARIABLES
    files,      \* the file system: path -> content
    runs,       \* invocations of main so far
    op,         \* the last operation: "none", "main" or "rerun"
    input,      \* the arguments and environment of the last invocation
    status,     \* how the last invocation ended
    appmenus,   \* the entry set get_appmenus returned to it
    created,    \* entry names create_template was called for
    written,    \* paths written by the last invocation
    deleted,    \* paths unlinked by the last invocation
    before      \* the file system as the last invocation found it

vars == <<files, runs, op, input, status, appmenus, created, written, deleted, before>>

----------------------------------------------------------------------------
(* Characters and texts *)

Chars(s) == [i \in 1..Len(s) |-> SubSeq(s, i, i)]

NUL == "NUL"
ESC == "ESC"
NONASCII == "NONASCII"

Lower == {"a","b","c","d","e","f","g","h","i","j","k","l","m",
          "n","o","p","q","r","s","t","u","v","w","x","y","z"}
Upper == {"A","B","C","D","E","F","G","H","I","J","K","L","M",
          "N","O","P","Q","R","S","T","U","V","W","X","Y","Z"}
Digit == {"0","1","2","3","4","5","6","7","8","9"}
AlNum == Lower \cup Upper \cup Digit

\* \s of a Python str pattern and the characters str.strip() removes
WhiteSpace == {" ", "\t", "\n", "\r", "\f"}

\* the element of a one-element set; { e : x \in {v} } names the value v as x in e
The(S) == CHOOSE x \in S : TRUE

AllIn(s, C) == \A i \in 1..Len(s) : s[i] \in C

Contains(s, c) == \E i \in 1..Len(s) : s[i] = c

StartsWith(s, p) == Len(s) >= Len(p) /\ SubSeq(s, 1, Len(p)) = p

EndsWith(s, p) == Len(s) >= Len(p) /\ SubSeq(s, Len(s) - Len(p) + 1, Len(s)) = p

\* s[p..] as far as its characters are in C: the index of the last one (p - 1 if none)
RunEnd(s, p, C) ==
    IF p > Len(s) THEN p - 1
    ELSE CHOOSE k \in (p - 1)..Len(s) :
             /\ \A x \in p..k : s[x] \in C
             /\ (k = Len(s) \/ s[k + 1] \notin C)

\* str.strip()
Strip(s) ==
    IF AllIn(s, WhiteSpace) THEN <<>>
    ELSE LET a == CHOOSE i \in 1..Len(s) :
                    s[i] \notin WhiteSpace /\ \A x \in 1..(i - 1) : s[x] \in WhiteSpace
             b == CHOOSE i \in 1..Len(s) :
                    s[i] \notin WhiteSpace /\ \A x \in (i + 1)..Len(s) : s[x] \in WhiteSpace
         IN  SubSeq(s, a, b)

\* str.rfind(c) + 1: the index of the last c, 0 if there is none
RFind(s, c) ==
    IF Contains(s, c) THEN CHOOSE i \in 1..Len(s) :
                               s[i] = c /\ \A x \in (i + 1)..Len(s) : s[x] # c
    ELSE 0

\* str.split(sep) for a one-character separator
RECURSIVE Split(_, _)
Split(s, sep) ==
    IF ~Contains(s, sep) THEN <<s>>
    ELSE LET i == CHOOSE k \in 1..Len(s) :
                      s[k] = sep /\ \A x \in 1..(k - 1) : s[x] # sep
         IN  <<SubSeq(s, 1, i - 1)>> \o Split(SubSeq(s, i + 1, Len(s)), sep)

\* sep.join(parts)
RECURSIVE Join(_, _)
Join(parts, sep) ==
    IF parts = <<>> THEN <<>>
    ELSE IF Len(parts) = 1 THEN parts[1]
    ELSE parts[1] \o sep \o Join(Tail(parts), sep)

----------------------------------------------------------------------------
(* Limits and allow-lists *)

required_fields_legacy == <<Chars("Name"), Chars("Exec")>>
required_fields == <<Chars("Name")>>

\* The source sets 100000; the model keeps the reading loop and scales the cap.
appmenus_line_count == 6

std_chars == AlNum \cup {"/", ".", ",", ":", "&", "(", ")", "_", " ", "+", "-"}

KeyName == Chars("Name")
KeyGenericName == Chars("GenericName")
KeyComment == Chars("Comment")
KeyCategories == Chars("Categories")
KeyExec == Chars("Exec")
KeyIcon == Chars("Icon")

FieldKeys == {KeyName, KeyGenericName, KeyComment, KeyCategories, KeyExec, KeyIcon}

\* fields_regexp: every pattern is \A[class]*\Z, given here by its class
fields_regexp(key) ==
    CASE key = KeyCategories -> AlNum \cup {"/", ".", ";", ":", "'", "(", ")", " ", "-"}
      [] key = KeyExec -> AlNum \cup {"(", ")", "_", "&", ">", "/", "{", "}", ":", ".", "=", " ", "-"}
      [] key = KeyIcon -> AlNum \cup {"/", "_", ".", "-"}
      [] OTHER -> std_chars

CATEGORIES_WHITELIST == { Chars(c) : c \in {
    "AudioVideo", "Audio", "Video", "Development", "Education", "Game",
    "Graphics", "Network", "Office", "Science", "Settings", "System",
    "Utility",
    "Building", "Debugger", "IDE", "GUIDesigner", "Profiling",
    "RevisionControl", "Translation", "Calendar", "ContactManagement",
    "Database", "Dictionary", "Chart", "Email", "Finance", "FlowChart", "PDA",
    "ProjectManagement", "Presentation", "Spreadsheet", "WordProcessor",
    "2DGraphics", "VectorGraphics", "RasterGraphics", "3DGraphics", "Scanning",
    "OCR", "Photography", "Publishing", "Viewer", "TextTools",
    "DesktopSettings", "HardwareSettings", "Printing", "PackageManager",
    "Dialup", "InstantMessaging", "Chat", "IRCClient", "Feed", "FileTransfer",
    "HamRadio", "News", "P2P", "RemoteAccess", "Telephony", "TelephonyTools",
    "VideoConference", "WebBrowser", "WebDevelopment", "Midi", "Mixer",
    "Sequencer", "Tuner", "TV", "AudioVideoEditing", "Player", "Recorder",
    "DiscBurning", "ActionGame", "AdventureGame", "ArcadeGame", "BoardGame",
    "BlocksGame", "CardGame", "KidsGame", "LogicGame", "RolePlaying",
    "Shooter", "Simulation", "SportsGame", "StrategyGame", "Art",
    "Construction", "Music", "Languages", "ArtificialIntelligence",
    "Astronomy", "Biology", "Chemistry", "ComputerScience",
    "DataVisualization", "Economy", "Electricity", "Geography", "Geology",
    "Geoscience", "History", "Humanities", "ImageProcessing", "Literature",
    "Maps", "Math", "NumericalAnalysis", "MedicalSoftware", "Physics",
    "Robotics", "Spirituality", "Sports", "ParallelComputing", "Amusement",
    "Archiving", "Compression", "Electronics", "Emulator", "Engineering",
    "FileTools", "FileManager", "TerminalEmulator", "Filesystem", "Monitor",
    "Security", "Accessibility", "Calculator", "Clock", "TextEditor",
    "Documentation", "Adult", "Core", "KDE", "GNOME", "XFCE", "GTK", "Qt",
    "Motif", "Java", "ConsoleOnly" } }

NonEmpty(c) == c # <<>>

Whitelisted(c) == c \in CATEGORIES_WHITELIST

\* sanitise_categories: split on ';', drop the empty parts, strip, keep the
\* whitelisted ones, join with ';' and append ';'
sanitise_categories(untrusted_value) ==
    LET parts == SelectSeq(Split(untrusted_value, ";"), NonEmpty)
        untrusted_categories == [i \in 1..Len(parts) |-> Strip(parts[i])]
        categories == SelectSeq(untrusted_categories, Whitelisted)
    IN  Join(categories, <<";">>) \o <<";">>

----------------------------------------------------------------------------
(* The line patterns of get_appmenus *)

\* the name class widened to the characters of a path
NameChars_Loose == AlNum \cup {".", "_", "-", "/", " "}

NameChars == AlNum \cup {".", "_", "-"}
KeyChars == AlNum \cup {"-"}
LocaleChars == Lower \cup Upper \cup {"@", "_"}

NoMatch == [matched |-> FALSE]

\* the text up to the first newline: what .* takes
UpToNewline(s) ==
    IF Contains(s, "\n")
    THEN SubSeq(s, 1, (CHOOSE i \in 1..Len(s) :
                           s[i] = "\n" /\ \A x \in 1..(i - 1) : s[x] # "\n") - 1)
    ELSE s

\* \s*=\s*(.*) from position q: the third group, or no match
AfterKey(s, q) ==
    The({ IF e <= Len(s) /\ s[e] = "="
          THEN [matched |-> TRUE,
                value |-> UpToNewline(SubSeq(s, RunEnd(s, e + 1, WhiteSpace) + 1, Len(s)))]
          ELSE NoMatch :
          e \in {RunEnd(s, q, WhiteSpace) + 1} })

\* the end of (?:\[[a-zA-Z@_]+\])? after a key ending at k: the index of the
\* closing bracket, or k when the group matches nothing. ('[' can be followed
\* neither by white space nor by '=', so giving the group up never helps.)
LocaleEnd(s, k) ==
    The({ IF k + 1 <= Len(s) /\ s[k + 1] = "[" /\ l >= k + 2
             /\ l + 1 <= Len(s) /\ s[l + 1] = "]"
          THEN l + 1
          ELSE k :
          l \in {RunEnd(s, k + 2, LocaleChars)} })

\* ([a-zA-Z0-9-]+(?:\[[a-zA-Z@_]+\])?)\s*=\s*(.*) from position p. The key
\* is the whole run of key characters: what follows it is none of them.
KeyAndValue(s, p) ==
    The({ IF k < p THEN NoMatch
          ELSE The({ The({ IF m.matched
                           THEN [matched |-> TRUE, key |-> SubSeq(s, p, e), value |-> m.value]
                           ELSE NoMatch :
                           m \in {AfterKey(s, e + 1)} }) :
                     e \in {LocaleEnd(s, k)} }) :
          k \in {RunEnd(s, p, KeyChars)} })

DotDesktop == Chars(".desktop")

\* where the key starts when the first group ends at j: after (?:\.desktop)?:
\* (the optional group is tried first, then its absence), 0 if neither fits
KeyStart(s, j) ==
    IF j + 9 <= Len(s) /\ SubSeq(s, j + 1, j + 8) = DotDesktop /\ s[j + 9] = ":"
    THEN j + 10
    ELSE IF j + 1 <= Len(s) /\ s[j + 1] = ":" THEN j + 2
    ELSE 0

\* (?:\.desktop)?: and the rest of the pattern, the first group ending at j
AfterName(s, j) ==
    The({ IF p = 0 THEN NoMatch ELSE KeyAndValue(s, p) : p \in {KeyStart(s, j)} })

\* the matches m[x], x in a set of positions: the one at the least position
FirstMatch(ms) ==
    IF ms = {} THEN NoMatch
    ELSE (CHOOSE c \in ms : \A o \in ms : c.at <= o.at).m

\* line_rx tried at position i: the first group is not greedy, so the
\* shortest one that lets the rest match is taken
line_rx_at(s, i) ==
    The({ IF m.matched
          THEN [matched |-> TRUE, name |-> SubSeq(s, i, m.at - 1),
                key |-> m.key, value |-> m.value]
          ELSE NoMatch :
          m \in { FirstMatch({ c \in { [at |-> j,
                                         m |-> [at |-> j + 1] @@ AfterName(s, j)] :
                                       j \in i..RunEnd(s, i, NameChars) } :
                               c.m.matched }) } })

\* line_rx.match in place of line_rx.search: the pattern tried at the start only
line_rx_match(s) == IF s = <<>> THEN NoMatch ELSE line_rx_at(s, 1)

\* line_rx.search: the leftmost position at which the pattern matches
line_rx_search(s) ==
    FirstMatch({ c \in { [at |-> i, m |-> line_rx_at(s, i)] : i \in 1..Len(s) } :
                 c.m.matched })

Desktop == Chars("desktop")

\* ignore_rx.match: \A.*([a-zA-Z0-9._-]+.desktop):(#.*|\s*)\Z
ignore_rx_match(s) ==
    \E c \in 10..Len(s) :
        /\ s[c] = ":"
        /\ SubSeq(s, c - 7, c - 1) = Desktop
        /\ s[c - 8] # "\n"
        /\ s[c - 9] \in NameChars
        /\ \A x \in 1..(c - 10) : s[x] # "\n"
        /\ \/ AllIn(SubSeq(s, c + 1, Len(s)), WhiteSpace)
           \/ /\ c + 1 <= Len(s) /\ s[c + 1] = "#"
              /\ \A x \in (c + 2)..Len(s) : s[x] # "\n"

----------------------------------------------------------------------------
(* get_appmenus *)

\* An entry set is a Python dict: the names in insertion order and the
\* fields of each name.
EmptyAppmenus == [order |-> <<>>, fields |-> <<>>]

HasName(am, name) == \E i \in 1..Len(am.order) : am.order[i] = name

\* a fold that keeps the first value of a key: dict.setdefault in place of the
\* assignment
SetField_First(am, name, key, value) ==
    IF HasName(am, name)
    THEN [am EXCEPT !.fields = (name :> (am.fields[name] @@ (key :> value))) @@ am.fields]
    ELSE [order |-> Append(am.order, name),
          fields |-> (name :> (key :> value)) @@ am.fields]

\* appmenus[name][key] = value, creating appmenus[name] on its first use
SetField(am, name, key, value) ==
    IF HasName(am, name)
    THEN [am EXCEPT !.fields = (name :> ((key :> value) @@ am.fields[name])) @@ am.fields]
    ELSE [order |-> Append(am.order, name),
          fields |-> (name :> (key :> value)) @@ am.fields]

\* bytes.decode('ascii') succeeds
IsAscii(line) == ~Contains(line, NONASCII)

\* The reading loop. source holds the lines the stream still has to give, each
\* as readline() returns it without its line end; an exhausted stream gives ''.
\* decode is TRUE for the byte stream of the remote service.
RECURSIVE ReadLines(_, _, _, _)
ReadLines(source, appmenus_line_limit_left, untrusted_appmenulist, decode) ==
    IF appmenus_line_limit_left > 0 /\ source # <<>>
    THEN ReadLines(Tail(source), appmenus_line_limit_left - 1,
                   IF decode /\ ~IsAscii(Head(source))
                   THEN untrusted_appmenulist
                   ELSE Append(untrusted_appmenulist, Strip(Head(source) \o <<"\n">>)),
                   decode)
    ELSE [list |-> untrusted_appmenulist, left |-> appmenus_line_limit_left]

\* the assertions on a matched name and key
ParseAssertsHold(name, untrusted_key) ==
    /\ ~Contains(name, "/")
    /\ ~Contains(name, NUL)
    /\ ~Contains(untrusted_key, NUL)
    /\ ~Contains(untrusted_key, ESC)
    /\ ~Contains(untrusted_key, "=")

\* the value of a matched line as it is stored: Categories are sanitised
StoredValue(key, untrusted_value) ==
    IF key = KeyCategories THEN sanitise_categories(untrusted_value) ELSE untrusted_value

\* A matched line: the entry set after it (the key is looked up in
\* fields_regexp and the value matched against its pattern)
StoreMatch(am, name, untrusted_key, untrusted_value) ==
    IF untrusted_key \in FieldKeys /\ AllIn(untrusted_value, fields_regexp(untrusted_key))
    THEN SetField(am, name, untrusted_key, StoredValue(untrusted_key, untrusted_value))
    ELSE am

\* One line of the parsing loop: the entry set after it, or a failed assertion
ParseLine(am, untrusted_line) ==
    IF untrusted_line = <<>> \/ ignore_rx_match(untrusted_line)
    THEN [ok |-> TRUE, am |-> am]
    ELSE The({ IF ~untrusted_m.matched THEN [ok |-> TRUE, am |-> am]
               ELSE IF ~ParseAssertsHold(untrusted_m.name, untrusted_m.key)
               THEN [ok |-> FALSE, am |-> am]
               ELSE [ok |-> TRUE,
                     am |-> The({ StoreMatch(am, untrusted_m.name, untrusted_m.key,
                                             untrusted_value) :
                                  untrusted_value \in {Strip(untrusted_m.value)} })] :
               untrusted_m \in {line_rx_search(untrusted_line)} })

RECURSIVE ParseLines(_, _)
ParseLines(am, list) ==
    IF list = <<>> THEN [ok |-> TRUE, am |-> am]
    ELSE The({ IF r.ok THEN ParseLines(r.am, Tail(list)) ELSE r :
               r \in {ParseLine(am, Head(list))} })

\* get_appmenus(vm): use_stdin is "vm is None"; returncode is the exit status
\* of the qubes.GetAppmenus service
get_appmenus(use_stdin, source, returncode) ==
    The({ IF ~use_stdin /\ returncode # 0
          THEN [status |-> "service_error", am |-> EmptyAppmenus]
          ELSE IF r.left = 0
          THEN [status |-> "limit", am |-> EmptyAppmenus]
          ELSE The({ IF parsed.ok
                     THEN [status |-> "ok", am |-> parsed.am]
                     ELSE [status |-> "assert", am |-> EmptyAppmenus] :
                     parsed \in {ParseLines(EmptyAppmenus, r.list)} }) :
          r \in {ReadLines(source, appmenus_line_count, <<>>, ~use_stdin)} })

----------------------------------------------------------------------------
(* Paths *)

Slash == <<"/">>

\* os.path.join(a, b)
PathJoin(a, b) ==
    IF StartsWith(b, Slash) THEN b
    ELSE IF a = <<>> \/ EndsWith(a, Slash) THEN a \o b
    ELSE a \o Slash \o b

\* os.path.split(p)[1]
PathTail(p) == SubSeq(p, RFind(p, "/") + 1, Len(p))

\* os.path.split(p)[0], for a path whose directory part is not all slashes
PathHead(p) ==
    LET head == SubSeq(p, 1, RFind(p, "/"))
    IN  IF head # <<>> /\ ~AllIn(head, {"/"})
        THEN SubSeq(head, 1, CHOOSE k \in 1..Len(head) :
                                 head[k] # "/" /\ \A x \in (k + 1)..Len(head) : head[x] = "/")
        ELSE head

\* os.path.splitext(p)[0]: the extension starts at the last dot, unless only
\* dots come before it in the file name
SplitExtRoot(p) ==
    LET sepIndex == RFind(p, "/")
        dotIndex == RFind(p, ".")
    IN  IF dotIndex > sepIndex /\ \E x \in (sepIndex + 1)..(dotIndex - 1) : p[x] # "."
        THEN SubSeq(p, 1, dotIndex - 1)
        ELSE p

\* the directories appmenusext.templates_dirs(vm)[0] and
\* appmenusext.template_icons_dirs(vm)[0] name
templates_dir == Chars("/vm/apps.templates")
template_icons_dir == Chars("/vm/apps.tempicons")

\* qubesappmenus.AppmenusSubdirs.icons_subdir
icons_subdir == Chars("apps.tempicons")

Exists(fs, path) == path \in DOMAIN fs

\* os.listdir(dir): the names of the files of dir
ListDir(fs, dir) == {PathTail(p) : p \in {q \in DOMAIN fs : PathHead(q) = dir}}

WriteFile(fs, path, content) == (path :> content) @@ fs

Unlink(fs, path) == [p \in DOMAIN fs \ {path} |-> fs[p]]

----------------------------------------------------------------------------
(* create_template *)

HasKey(values, key) == key \in DOMAIN values

\* dict.pop(key, None) and del dict[key]
RemoveKey(values, key) == [k \in DOMAIN values \ {key} |-> values[k]]

SafeShellChars == AlNum \cup {"_", "@", "%", "+", "=", ":", ",", ".", "/", "-"}

\* s.replace("'", "'\"'\"'")
RECURSIVE EscapeQuotes(_)
EscapeQuotes(s) ==
    IF s = <<>> THEN <<>>
    ELSE (IF Head(s) = "'" THEN Chars("'\"'\"'") ELSE <<Head(s)>>) \o EscapeQuotes(Tail(s))

\* shlex.quote
ShlexQuote(s) ==
    IF s = <<>> THEN Chars("''")
    ELSE IF AllIn(s, SafeShellChars) THEN s
    ELSE <<"'">> \o EscapeQuotes(s) \o <<"'">>

MissingRequired(values, legacy) ==
    LET req_fields == IF legacy THEN required_fields_legacy ELSE required_fields
    IN  \E i \in 1..Len(req_fields) : ~HasKey(values, req_fields[i])

\* the name of the icon file the Icon line points to
IconFileOf(path) == SplitExtRoot(PathTail(path)) \o Chars(".png")

IconLine(path, values) ==
    IF HasKey(values, KeyIcon)
    THEN Chars("Icon=")
         \o PathJoin(PathJoin(Chars("%VMDIR%"), icons_subdir), IconFileOf(path))
         \o <<"\n">>
    ELSE Chars("Icon=%XDGICON%\n")

PrefixedLine(values, key) ==
    IF HasKey(values, key)
    THEN key \o Chars("=%VMNAME%: ") \o values[key] \o <<"\n">>
    ELSE <<>>

PlainLine(values, key) ==
    IF HasKey(values, key) THEN key \o <<"=">> \o values[key] \o <<"\n">> ELSE <<>>

\* values["Categories"] = values.get("Categories", "") + "X-Qubes-VM;"
ForceCategory(values) ==
    (KeyCategories :> ((IF HasKey(values, KeyCategories) THEN values[KeyCategories] ELSE <<>>)
                       \o Chars("X-Qubes-VM;")))
    @@ values

\* the assertions of the service branch
RenderAssertsHold(name) ==
    /\ ~Contains(name, " ")
    /\ ~Contains(name, ";")
    /\ ~Contains(name, "%")

ExecLines(name, values, legacy) ==
    IF legacy
    THEN Chars("Exec=qvm-run -q -a %VMNAME% -- ") \o ShlexQuote(values[KeyExec]) \o <<"\n">>
         \o Chars("X-Qubes-DispvmExec=qvm-run -q -a --dispvm=%VMNAME% -- ")
         \o ShlexQuote(values[KeyExec]) \o <<"\n">>
    ELSE Chars("Exec=qvm-run -q -a --service -- %VMNAME% qubes.StartApp+") \o name \o <<"\n">>
         \o Chars("X-Qubes-DispvmExec=qvm-run -q -a --service --dispvm=%VMNAME% -- qubes.StartApp+")
         \o name \o <<"\n">>

\* desktop_entry as create_template builds it
DesktopEntry(path, name, values, legacy) ==
    Chars("[Desktop Entry]\n")
    \o Chars("Version=1.0\n")
    \o Chars("Type=Application\n")
    \o Chars("Terminal=false\n")
    \o Chars("X-Qubes-VmName=%VMNAME%\n")
    \o Chars("X-Qubes-AppName=") \o name \o <<"\n">>
    \o IconLine(path, values)
    \o PrefixedLine(values, KeyName)
    \o PrefixedLine(values, KeyGenericName)
    \o PlainLine(ForceCategory(values), KeyComment)
    \o PlainLine(ForceCategory(values), KeyCategories)
    \o ExecLines(name, values, legacy)

\* a write that is not gated by the comparison
NeedsWrite_Always(fs, path, desktop_entry) == TRUE

\* the comparison that gates the write: a missing file reads as ''
NeedsWrite(fs, path, desktop_entry) ==
    desktop_entry # (IF Exists(fs, path) THEN fs[path] ELSE <<>>)

\* create_template(path, name, values, legacy) on the file system fs: the
\* file system after it, whether it wrote, and whether its assertions held
create_template(fs, path, name, values, legacy) ==
    IF MissingRequired(values, legacy)
    THEN [ok |-> TRUE, files |-> fs, wrote |-> FALSE]
    ELSE IF ~legacy /\ ~RenderAssertsHold(name)
    THEN [ok |-> FALSE, files |-> fs, wrote |-> FALSE]
    ELSE The({ IF NeedsWrite(fs, path, desktop_entry)
               THEN [ok |-> TRUE, files |-> WriteFile(fs, path, desktop_entry), wrote |-> TRUE]
               ELSE [ok |-> TRUE, files |-> fs, wrote |-> FALSE] :
               desktop_entry \in {DesktopEntry(path, name, values, legacy)} })

----------------------------------------------------------------------------
(* process_appmenus_templates *)

DesktopSuffix == Chars(".desktop")
QubesStart == Chars("qubes-start")
QubesStartFile == Chars("qubes-start.desktop")

\* the bundled qubes-start.desktop.template, an opaque text
template_data == <<"qubes-start.desktop.template">>

\* What the icon converter does for an icon name: get_xdg_icon_from_vm fails
\* (got = FALSE) or returns the image img, and icon.save then succeeds or fails.
ConvFails == [got |-> FALSE, img |-> "none", saves |-> FALSE]

AppmenuPath(appmenu_name) == PathJoin(templates_dir, appmenu_name) \o DesktopSuffix

IconDest(appmenu_name) == PathJoin(template_icons_dir, appmenu_name \o Chars(".png"))

\* the class test inverted
HasQubesStart_Inverted(klass) == klass = "AppVM"

\* Only create Start shortcut for standalone VMs
HasQubesStart(klass) == klass # "AppVM"

\* the creation of the Start shortcut
CreateStart(fs, klass) ==
    LET qubes_start_fname == PathJoin(templates_dir, QubesStartFile)
    IN  IF HasQubesStart(klass) /\ ~Exists(fs, qubes_start_fname)
        THEN [files |-> WriteFile(fs, qubes_start_fname, template_data),
              written |-> {qubes_start_fname}]
        ELSE [files |-> fs, written |-> {}]

\* the entry set with the reserved name left in
PopReserved_Keep(am) == am

\* appmenus.pop('qubes-start', None)
PopReserved(am) ==
    [order |-> SelectSeq(am.order, LAMBDA n : n # QubesStart),
     fields |-> [n \in DOMAIN am.fields \ {QubesStart} |-> am.fields[n]]]

\* get_xdg_icon_from_vm for an icon name: conv gives the outcome for the icons
\* the VM has, and the converter fails for any other name
Convert(conv, icon) == IF icon \in DOMAIN conv THEN conv[icon] ELSE ConvFails

\* The icon of one entry: the file system and the entry's values after the
\* try block and its exception handler
IconStep(fs, appmenu_name, values, conv) ==
    The({ IF c.got /\ ~(Exists(fs, icondest) /\ fs[icondest] = c.img) /\ c.saves
          THEN [files |-> WriteFile(fs, icondest, c.img), values |-> values,
                written |-> {icondest}]
          ELSE IF Exists(fs, icondest)
          THEN [files |-> fs, values |-> values, written |-> {}]
          ELSE [files |-> fs, values |-> RemoveKey(values, KeyIcon), written |-> {}] :
          icondest \in {IconDest(appmenu_name)},
          c \in {Convert(conv, values[KeyIcon])} })

\* the TODO-marked icon branch of the loop
IconOf(fs, appmenu_name, values, conv) ==
    IF HasKey(values, KeyIcon)
    THEN IconStep(fs, appmenu_name, values, conv)
    ELSE [files |-> fs, values |-> values, written |-> {}]

\* One turn of the loop over appmenus.keys()
EntryStep(st, appmenu_name, values, legacy, conv) ==
    The({ The({ [ok |-> t.ok,
                 files |-> t.files,
                 created |-> st.created \cup {appmenu_name},
                 written |-> st.written \cup i.written
                             \cup (IF t.wrote THEN {appmenu_path} ELSE {}),
                 deleted |-> st.deleted] :
                t \in {create_template(i.files, appmenu_path, appmenu_name,
                                       i.values, legacy)} }) :
          i \in {IconOf(st.files, appmenu_name, values, conv)},
          appmenu_path \in {AppmenuPath(appmenu_name)} })

RECURSIVE EntryLoop(_, _, _, _, _)
EntryLoop(st, order, fields, legacy, conv) ==
    IF order = <<>> THEN st
    ELSE The({ IF next.ok
               THEN EntryLoop(next, Tail(order), fields, legacy, conv)
               ELSE next :
               next \in {EntryStep(st, Head(order), fields[Head(order)], legacy, conv)} })

\* the deletion loop with its suffix test inverted: it looks at the files that
\* are no launchers
StaleFiles_SkipsDesktop(fs, klass, am) ==
    {PathJoin(templates_dir, appmenu_file) :
        appmenu_file \in {f \in ListDir(fs, templates_dir) :
            /\ ~EndsWith(f, DesktopSuffix)
            /\ ~(HasQubesStart(klass) /\ f = QubesStartFile)
            /\ ~HasName(am, f)}}

\* Delete appmenus of removed applications: the files the loop unlinks
StaleFiles(fs, klass, am) ==
    {PathJoin(templates_dir, appmenu_file) :
        appmenu_file \in {f \in ListDir(fs, templates_dir) :
            /\ EndsWith(f, DesktopSuffix)
            /\ ~(HasQubesStart(klass) /\ f = QubesStartFile)
            /\ ~HasName(am, SubSeq(f, 1, Len(f) - Len(DesktopSuffix)))}}

DeleteStale(st, klass, am) ==
    The({ [st EXCEPT !.files = [p \in DOMAIN st.files \ stale |-> st.files[p]],
                     !.deleted = stale] :
          stale \in {StaleFiles(st.files, klass, am)} })

\* the state of a pass of process_appmenus_templates before its loop
PassStart(start) ==
    [ok |-> TRUE, files |-> start.files, created |-> {},
     written |-> start.written, deleted |-> {}]

\* process_appmenus_templates(appmenusext, vm, appmenus)
process_appmenus_templates(fs, klass, legacy, conv, new_appmenus) ==
    The({ The({ IF looped.ok THEN DeleteStale(looped, klass, am) ELSE looped :
                looped \in {EntryLoop(PassStart(start), am.order, am.fields,
                                      legacy, conv)} }) :
          start \in {CreateStart(fs, klass)},
          am \in {PopReserved(new_appmenus)} })

----------------------------------------------------------------------------
(* main *)

Nothing(fs, how, am) ==
    [status |-> how, am |-> am, files |-> fs,
     created |-> {}, written |-> {}, deleted |-> {}]

Processed(am, done) ==
    [status |-> IF done.ok THEN "processed" ELSE "assert", am |-> am,
     files |-> done.files, created |-> done.created,
     written |-> done.written, deleted |-> done.deleted]

\* main from retrieve_appmenus_templates' return on
Reconcile(fs, in, got) ==
    IF got.status # "ok" THEN Nothing(fs, got.status, EmptyAppmenus)
    ELSE IF got.am.order = <<>> /\ in.klass # "AppVM"
    THEN Nothing(fs, "no_appmenus", got.am)
    ELSE Processed(got.am,
                   process_appmenus_templates(fs, in.klass, in.legacy, in.conv, got.am))

\* main, from the file system fs, with the arguments and environment in:
\* the file system after it and what it did
main(fs, in) ==
    IF in.regenerate_only THEN Nothing(fs, "regenerated", EmptyAppmenus)
    ELSE IF ~in.is_running THEN Nothing(fs, "not_running", EmptyAppmenus)
    ELSE The({ Reconcile(fs, in, got) :
               got \in {get_appmenus(in.use_stdin, in.source, in.returncode)} })

----------------------------------------------------------------------------
(* Inputs *)

\* invocations of main in one behaviour
MaxRuns == 2

Klasses == {"AppVM", "StandaloneVM"}

IconI == Chars("i")
IconJ == Chars("j")

Got(img) == [got |-> TRUE, img |-> img, saves |-> TRUE]
SaveFails(img) == [got |-> TRUE, img |-> img, saves |-> FALSE]

\* The converter's outcomes for the icons i and j
Convs ==
    { (IconI :> Got("img1")) @@ (IconJ :> Got("img1")),
      (IconI :> Got("img2")) @@ (IconJ :> Got("img1")),
      (IconI :> ConvFails) @@ (IconJ :> Got("img1")),
      (IconI :> SaveFails("img1")) @@ (IconJ :> ConvFails) }

Input(source, use_stdin, returncode, is_running, regenerate_only, klass, legacy, conv) ==
    [source |-> source, use_stdin |-> use_stdin, returncode |-> returncode,
     is_running |-> is_running, regenerate_only |-> regenerate_only,
     klass |-> klass, legacy |-> legacy, conv |-> conv]

\* source followed by blank lines up to n lines
Pad(source, n) ==
    IF Len(source) >= n THEN source
    ELSE source \o [i \in 1..(n - Len(source)) |-> <<>>]

\* The output of qubes.GetAppmenus in the reconciliation runs
SourceNone == <<>>
SourceA == <<Chars("a.desktop:Name=A"), Chars("a.desktop:Icon=i")>>
SourceAB ==
    <<Chars("a.desktop:Name=A two"), Chars("a.desktop:Icon=i"),
      Chars("b.desktop:Name=B"), Chars("b.desktop:Exec=b --x"), Chars("b.desktop:Icon=j")>>
SourceStart ==
    <<Chars("qubes-start.desktop:Name=S"), Chars("qubes-start.desktop:Exec=s"),
      Chars("qubes-start.desktop:Icon=i")>>
SourceC == <<Chars("c.desktop:Icon=i"), Chars("c.desktop:Categories=TV;Bogus;Qt")>>

FsSources == {SourceNone, SourceA, SourceAB, SourceStart, SourceC}

ConvAll == (IconI :> Got("img1")) @@ (IconJ :> Got("img1"))
ConvNone == (IconI :> ConvFails) @@ (IconJ :> ConvFails)

\* The invocations that leave the directories a later one finds
PriorInputs ==
    { Input(SourceNone, FALSE, 0, TRUE, FALSE, "StandaloneVM", FALSE, ConvAll),
      Input(SourceAB, FALSE, 0, TRUE, FALSE, "StandaloneVM", FALSE, ConvAll),
      Input(SourceA, TRUE, 0, TRUE, FALSE, "AppVM", FALSE, ConvNone),
      Input(SourceStart, FALSE, 0, TRUE, FALSE, "StandaloneVM", TRUE, ConvAll),
      Input(SourceC, TRUE, 0, TRUE, FALSE, "AppVM", TRUE, ConvAll) }

\* The invocations under study
FsInputs ==
    { Input(src, FALSE, 0, TRUE, FALSE, k, l, c) :
          src \in FsSources, k \in Klasses, l \in BOOLEAN, c \in Convs }
    \cup { Input(SourceA, FALSE, rc, run, regen, "AppVM", FALSE, ConvAll) :
               rc \in {0, 1}, run \in BOOLEAN, regen \in BOOLEAN }

\* the last invocation of a behaviour draws from FsInputs, the ones before it
\* from PriorInputs
RunInputs == IF runs + 1 < MaxRuns THEN PriorInputs ELSE FsInputs

\* Lines an adversarial VM may send
LineNameX == Chars("a.desktop:Name=x")
LineNameY == Chars("a:Name=y")
LineNameBad == Chars("a.desktop:Name=bad$")
LineEvil == Chars("evil/app.desktop:Name=x")
LineUnsafeName == Chars("a b;c%d.desktop:Name=z")
LineControl == <<"a", NUL, "b", ":", "N", "a", ESC, "m", "e", "=", "x">>
LineKeyEquals == Chars("a:Na=me=x")
LineLocale == Chars("a:Name[de]=x")
LineComment == Chars("a.desktop:# comment")
LineNonAscii == <<NONASCII>> \o Chars(" a:Name=n")
LineStart == Chars("qubes-start:Name=S")
LineIcon == Chars("a:Icon=i")
LineExec == Chars("a:Exec=run 'it'")
LineDotName == Chars(".:Name=D")
LineDotIcon == Chars(".:Icon=i")
LineCatMixed == Chars("a:Categories=TV;Bogus;Qt")
LineCatBogus == Chars("a:Categories=Bogus")
LineCatEmpty == Chars("a:Categories=")
LineCatSpaces == Chars("a:Categories = Qt ;;TV")

ParseLineSet ==
    { LineNameX, LineNameY, LineNameBad, LineEvil, LineUnsafeName, LineControl,
      LineKeyEquals, LineLocale, LineComment, LineNonAscii, LineStart, LineIcon,
      LineExec, LineDotName, LineDotIcon, LineCatMixed, LineCatBogus, LineCatEmpty,
      LineCatSpaces, <<>> }

\* the lines that the longer sources are built of
CoreLines ==
    { LineNameX, LineNameY, LineNameBad, LineEvil, LineUnsafeName, LineControl,
      LineComment, LineNonAscii, LineDotName, LineDotIcon, LineCatBogus,
      LineCatSpaces }

\* lines in a source built of CoreLines
MaxLines == 2

RECURSIVE SeqsUpTo(_, _)
SeqsUpTo(S, n) ==
    IF n = 0 THEN {<<>>}
    ELSE The({ shorter \cup { Append(q, x) : q \in { r \in shorter : Len(r) = n - 1 }, x \in S } :
               shorter \in {SeqsUpTo(S, n - 1)} })

\* The sources of the parsing runs: every line alone and every pair of lines,
\* every sequence of at most MaxLines of the CoreLines, and sources of one
\* line short of the cap, the cap and one line more
ParseSources ==
    { <<a>> : a \in ParseLineSet }
    \cup { <<a, b>> : a, b \in ParseLineSet }
    \cup SeqsUpTo(CoreLines, MaxLines)
    \cup { Pad(<<l>>, n) : l \in {LineNameX, LineNonAscii},
                           n \in (appmenus_line_count - 1)..(appmenus_line_count + 1) }

ParseInputs ==
    { Input(src, stdin, 0, TRUE, FALSE, "AppVM", l, ConvAll) :
          src \in ParseSources, stdin \in BOOLEAN, l \in BOOLEAN }

----------------------------------------------------------------------------
Init ==
    /\ files = <<>>
    /\ runs = 0
    /\ op = "none"
    /\ input = <<>>
    /\ status = "none"
    /\ appmenus = EmptyAppmenus
    /\ created = {}
    /\ written = {}
    /\ deleted = {}
    /\ before = <<>>

Record(r) ==
    /\ files' = r.files
    /\ status' = r.status
    /\ appmenus' = r.am
    /\ created' = r.created
    /\ written' = r.written
    /\ deleted' = r.deleted
    /\ before' = files

\* one invocation of qvm-sync-appmenus
Main(in, limit) ==
    /\ runs < limit
    /\ runs' = runs + 1
    /\ op' = "main"
    /\ input' = in
    /\ \E r \in {main(files, in)} : Record(r)

\* the same invocation once more: same arguments, same output of the VM, same
\* outcomes of the icon converter
Rerun ==
    /\ op = "main"
    /\ op' = "rerun"
    /\ UNCHANGED <<runs, input>>
    /\ \E r \in {main(files, input)} : Record(r)

Next ==
    \/ \E in \in RunInputs : Main(in, MaxRuns)
    \/ Rerun

Spec == Init /\ [][Next]_vars

\* one invocation on what an adversarial VM sends
ParseNext == \E in \in ParseInputs : Main(in, 1)

ParseSpec == Init /\ [][ParseNext]_vars

----------------------------------------------------------------------------
(* What the properties speak of *)

StartPath == PathJoin(templates_dir, QubesStartFile)

\* the last invocation fetched the entries and ended without a fatal error
Fetched == op # "none" /\ status \in {"processed", "no_appmenus"}

\* the lines the last invocation read, as the parsing loop saw them
ReadList == ReadLines(input.source, appmenus_line_count, <<>>, ~input.use_stdin).list

\* what the parsing loop matched on each line it read; NoMatch for a line it
\* skipped
Matches ==
    [i \in 1..Len(ReadList) |->
        IF ReadList[i] = <<>> \/ ignore_rx_match(ReadList[i])
        THEN NoMatch
        ELSE line_rx_search(ReadList[i])] \o <<>>

HasField(name, key) == HasName(appmenus, name) /\ key \in DOMAIN appmenus.fields[name]

\* a launcher other than the Start shortcut
IsLauncher(p) ==
    /\ PathHead(p) = templates_dir
    /\ EndsWith(PathTail(p), DesktopSuffix)
    /\ p # StartPath

\* the entry name a launcher path was built from
NameOfLauncher(p) == SubSeq(PathTail(p), 1, Len(PathTail(p)) - Len(DesktopSuffix))

\* the position of the first ':' of a line, 0 if it has none
FirstColon(l) ==
    IF Contains(l, ":")
    THEN CHOOSE c \in 1..Len(l) : l[c] = ":" /\ \A x \in 1..(c - 1) : l[x] # ":"
    ELSE 0

\* the entry-name part of the line, the text before its first ':', contains '/'
SlashName(l) == \E x \in 1..(FirstColon(l) - 1) : l[x] = "/"

\* the text of the line after its first ':'
AfterColon(l) == SubSeq(l, FirstColon(l) + 1, Len(l))

\* the entry-name part after its last '/', without a .desktop suffix
BaseName(l) ==
    LET part == SubSeq(l, 1, FirstColon(l) - 1)
        base == SubSeq(part, RFind(part, "/") + 1, Len(part))
    IN  IF EndsWith(base, DotDesktop) /\ Len(base) > Len(DotDesktop)
        THEN SubSeq(base, 1, Len(base) - Len(DotDesktop))
        ELSE base

\* a line path/name.desktop:Name=value with a well-formed name and value
SlashNameLine(l) ==
    /\ SlashName(l)
    /\ BaseName(l) # <<>>
    /\ AllIn(BaseName(l), AlNum \cup {".", "_", "-"})
    /\ StartsWith(AfterColon(l), Chars("Name="))
    /\ AllIn(SubSeq(AfterColon(l), Len(Chars("Name=")) + 1, Len(AfterColon(l))), AlNum)

RECURSIVE IsSubseq(_, _)
IsSubseq(a, b) ==
    IF a = <<>> THEN TRUE
    ELSE IF b = <<>> THEN FALSE
    ELSE IF Head(a) = Head(b) THEN IsSubseq(Tail(a), Tail(b))
    ELSE IsSubseq(a, Tail(b))

\* the lines of a file
LinesOf(content) == Split(content, "\n")

----------------------------------------------------------------------------
(* C1 *)

\* C1: an invocation repeated with the same entry set, render mode, VM class
\* and converter outcomes writes no launcher, icon or Start file and deletes
\* nothing: the directories are as the first one left them.
C1_SecondRunWritesNothing ==
    op = "rerun" => written = {} /\ deleted = {} /\ files = before

\* a repeated pass over entries with launchers and icons in place
C1_Witness ==
    /\ op = "rerun"
    /\ status = "processed"
    /\ \E p \in DOMAIN files : IsLauncher(p)
    /\ \E p \in DOMAIN files : PathHead(p) = template_icons_dir
    /\ Exists(files, StartPath)

----------------------------------------------------------------------------
(* C2 *)

\* C2: an input of exactly appmenus_line_count lines is read and parsed, an
\* input of one line more fails with the limit error, and the failing run
\* creates, changes and deletes no file.
C2_LimitAtCap ==
    (op = "main" /\ ~input.regenerate_only /\ input.is_running /\ input.returncode = 0)
    => /\ Len(input.source) = appmenus_line_count => status # "limit"
       /\ Len(input.source) = appmenus_line_count + 1
          => status = "limit" /\ files = before

----------------------------------------------------------------------------
(* C3 *)

\* the launcher directory holds no launcher for a name absent from the entry set
NoStaleLauncher ==
    \A p \in DOMAIN files : IsLauncher(p) => HasName(appmenus, NameOfLauncher(p))

\* C3 as stated: after every run of main that fetched the entries and ended
\* without a fatal error, whatever the VM class and the entry set, the empty
\* one included, no launcher of an absent name is left.
C3_Original == Fetched => NoStaleLauncher

\* C3 amended: that holds of the runs in which main calls
\* process_appmenus_templates, the entry set not empty or the class AppVM; a
\* run that received no entry for another class leaves the directories as
\* they were.
C3_StaleLaunchersDeleted ==
    /\ status = "processed" => NoStaleLauncher
    /\ status = "no_appmenus"
       => files = before /\ appmenus.order = <<>> /\ input.klass # "AppVM"

\* a pass that deleted the launcher an earlier run left
C3_Witness ==
    /\ status = "processed"
    /\ \E p \in deleted : IsLauncher(p) /\ Exists(before, p)

----------------------------------------------------------------------------
(* C4 *)

\* C4 as stated: a qubes-start.desktop present before the pass is present
\* after it, for every entry set and every VM class.
C4_Original ==
    (status = "processed" /\ Exists(before, StartPath)) => Exists(files, StartPath)

\* C4 amended: for every class other than AppVM it is present after the pass
\* with its content unchanged; for an AppVM the deletion pass removes it.
C4_StartKeptUnlessAppVM ==
    (status = "processed" /\ Exists(before, StartPath))
    => IF input.klass # "AppVM"
       THEN Exists(files, StartPath) /\ files[StartPath] = before[StartPath]
       ELSE ~Exists(files, StartPath) /\ StartPath \in deleted

\* a pass for a standalone VM that deleted a launcher and found the shortcut
C4_Witness ==
    /\ status = "processed"
    /\ input.klass # "AppVM"
    /\ Exists(before, StartPath)
    /\ deleted # {}

----------------------------------------------------------------------------
(* C5 *)

\* C5: create_template is never called for the name qubes-start, and
\* qubes-start.desktop holds after a pass what it held before or the bundled
\* template.
C5_ReservedNameNotRendered ==
    op # "none"
    => /\ QubesStart \notin created
       /\ StartPath \notin written
          => (Exists(files, StartPath)
              => Exists(before, StartPath) /\ files[StartPath] = before[StartPath])
       /\ StartPath \in written => files[StartPath] = template_data

\* a pass over an entry set that held the reserved name
C5_Witness ==
    /\ status = "processed"
    /\ HasName(appmenus, QubesStart)
    /\ KeyName \in DOMAIN appmenus.fields[QubesStart]
    /\ Exists(files, StartPath)

----------------------------------------------------------------------------
(* C6 *)

\* C6 as stated: a data line whose entry-name part contains '/' is discarded:
\* the entry set is the one the other lines give.
C6_Original ==
    Fetched
    => appmenus = ParseLines(EmptyAppmenus,
                             SelectSeq(ReadList, LAMBDA l : ~SlashName(l))).am

\* C6 amended: such a line is not discarded. The pattern is searched, which
\* skips the path up to the last '/': the field is stored under the base name
\* that follows, and a launcher is written for it. No name with a '/' is stored.
C6_PathPrefixSkipped ==
    Fetched
    => /\ \A i \in 1..Len(appmenus.order) : ~Contains(appmenus.order[i], "/")
       /\ \A i \in 1..Len(ReadList) :
              SlashNameLine(ReadList[i])
              => /\ HasField(BaseName(ReadList[i]), KeyName)
                 /\ (status = "processed" /\ ~input.legacy)
                    => Exists(files, AppmenuPath(BaseName(ReadList[i])))

\* the line evil/app.desktop:Name=x gave the entry app and its launcher
C6_Witness ==
    /\ status = "processed"
    /\ input.source = <<LineEvil>>
    /\ appmenus.order = <<Chars("app")>>
    /\ AppmenuPath(Chars("app")) \in written

----------------------------------------------------------------------------
(* C7 *)

\* the Categories line of a launcher, without "Categories="
CategoriesOf(content) ==
    LET l == The({ x \in { LinesOf(content)[i] : i \in 1..Len(LinesOf(content)) } :
                   StartsWith(x, Chars("Categories=")) })
    IN  SubSeq(l, Len(Chars("Categories=")) + 1, Len(l))

Forced == Chars("X-Qubes-VM;")

\* the tokens of a ';'-terminated list
TokensOf(list) == SubSeq(Split(list, ";"), 1, Len(Split(list, ";")) - 1)

\* the stripped tokens of the Categories value the entry was given last
GivenCategories(ms, name) ==
    LET given == { i \in 1..Len(ms) :
                     /\ ms[i].matched
                     /\ ms[i].name = name
                     /\ ms[i].key = KeyCategories
                     /\ AllIn(Strip(ms[i].value), fields_regexp(KeyCategories)) }
        last == CHOOSE i \in given : \A o \in given : o <= i
        parts == Split(Strip(ms[last].value), ";")
    IN  IF given = {} THEN <<>> ELSE [k \in 1..Len(parts) |-> Strip(parts[k])]

\* C7: the Categories line of a written launcher is a ';'-separated list that
\* ends with X-Qubes-VM;, every token before the forced one is whitelisted,
\* and the tokens kept are in the order of the input.
C7_CategoriesWhitelisted ==
    status = "processed"
    => \A ms \in {Matches} : \A p \in written :
           IsLauncher(p)
           => LET cats == CategoriesOf(files[p])
                  kept == TokensOf(SubSeq(cats, 1, Len(cats) - Len(Forced)))
              IN  /\ EndsWith(cats, Forced)
                  /\ \A k \in 1..Len(kept) : kept[k] \in CATEGORIES_WHITELIST
                  /\ IsSubseq(kept, GivenCategories(ms, NameOfLauncher(p)))

----------------------------------------------------------------------------
(* C8 *)

\* the lines that name the entry and the key
LinesFor(ms, name, key) ==
    { i \in 1..Len(ms) : ms[i].matched /\ ms[i].name = name /\ ms[i].key = key }

\* those of them whose value passes the pattern of the key
ValidLinesFor(ms, name, key) ==
    { i \in LinesFor(ms, name, key) : AllIn(Strip(ms[i].value), fields_regexp(key)) }

Latest(S) == CHOOSE i \in S : \A o \in S : o <= i

\* the value of a matched line as the entry set stores it
ValueOf(m) == StoredValue(m.key, Strip(m.value))

NamesRead(ms) == { ms[i].name : i \in { x \in 1..Len(ms) : ms[x].matched } }

\* C8 as stated: of two data lines with the same entry name and the same
\* vocabulary key, the entry holds the value of the later one.
C8_Original ==
    Fetched
    => \A ms \in {Matches} : \A name \in NamesRead(ms), key \in FieldKeys :
           Cardinality(LinesFor(ms, name, key)) >= 2
           => /\ HasField(name, key)
              /\ appmenus.fields[name][key] = ValueOf(ms[Latest(LinesFor(ms, name, key))])

\* C8 amended: the entry holds the value of the latest line whose value
\* passes the pattern of the key; a line whose value fails it is ignored and
\* leaves the value of an earlier line in place.
C8_LastValidWins ==
    Fetched
    => \A ms \in {Matches} : \A name \in NamesRead(ms), key \in FieldKeys :
           IF ValidLinesFor(ms, name, key) = {}
           THEN ~HasField(name, key)
           ELSE /\ HasField(name, key)
                /\ appmenus.fields[name][key]
                   = ValueOf(ms[Latest(ValidLinesFor(ms, name, key))])

\* two lines gave the same key of the same entry different values
C8_Witness ==
    /\ Fetched
    /\ \E ms \in {Matches} : \E name \in NamesRead(ms), key \in FieldKeys :
           /\ Cardinality(ValidLinesFor(ms, name, key)) = 2
           /\ \E i, j \in ValidLinesFor(ms, name, key) :
                  /\ i < j
                  /\ ValueOf(ms[i]) # ValueOf(ms[j])
                  /\ appmenus.fields[name][key] = ValueOf(ms[j])

----------------------------------------------------------------------------
(* C9 *)

\* the Icon line of a launcher
IconLineOf(content) ==
    The({ x \in { LinesOf(content)[i] : i \in 1..Len(LinesOf(content)) } :
          StartsWith(x, Chars("Icon=")) })

\* the Icon line that names the icon file of the entry
OwnIconLine(name) ==
    Chars("Icon=%VMDIR%/apps.tempicons/") \o name \o Chars(".png")

\* C9: a failing converter does not abort the pass, and a launcher it writes
\* names the icon file of its entry, which then is on disk, or the
\* placeholder %XDGICON%.
C9_IconLineMatchesDisk ==
    op # "none"
    => /\ status # "assert"
       /\ \A p \in written :
              IsLauncher(p)
              => \/ IconLineOf(files[p]) = Chars("Icon=%XDGICON%")
                 \/ /\ IconLineOf(files[p]) = OwnIconLine(NameOfLauncher(p))
                    /\ Exists(files, IconDest(NameOfLauncher(p)))

----------------------------------------------------------------------------
(* C10 *)

\* C10: no assertion fails: a matched entry name holds no '/', NUL, space,
\* ';' or '%', a matched key no NUL, ESC or '=', whatever the lines.
C10_AssertionsHold ==
    op # "none"
    => /\ status # "assert"
       /\ \A ms \in {Matches} : \A i \in 1..Len(ms) :
              ms[i].matched
              => /\ \A c \in {"/", NUL, " ", ";", "%"} : ~Contains(ms[i].name, c)
                 /\ \A c \in {NUL, ESC, "="} : ~Contains(ms[i].key, c)

\* a launcher was rendered in service mode from a line with unsafe characters
C10_Witness ==
    /\ status = "processed"
    /\ ~input.legacy
    /\ \E i \in 1..Len(input.source) : input.source[i] = LineUnsafeName
    /\ Chars("d") \in created

====
